---- MODULE Spec2Model ----
(***************************************************************************)
(* A model of the utility libraries of ts.tsx.                             *)
(*                                                                         *)
(* Part 1: @tstsx/object-diff, objectDiff(left, right, options)            *)
(*   (packages/vanilla/object-diff/src/objectDiff.ts).                     *)
(*                                                                         *)
(* JavaScript values are records [kind, id]; objects live in a heap of     *)
(* ordered own-property lists, so that reference identity, reference       *)
(* cycles, sharing and key enumeration order are all represented.          *)
(* A string is a sequence of tokens: every key is one token and "." is a   *)
(* token, so path.join('.') and startsWith are computed, not assumed.      *)
(***************************************************************************)
EXTENDS Integers, Sequences, FiniteSets, TLC

(***************************************************************************)
(* Bounds of the model.                                                    *)
(***************************************************************************)
\* objects in the heap
NumObjects == 3
\* own properties in the whole heap (inputs of the general family)
MaxFields == 2
\* calls of objectDiff a caller makes with the same arguments
MaxCalls == 2
\* options that differ from their default in one call
MaxNonDefault == 2
\* largest finite maxDepth tried
MaxDepthBound == 1
\* largest retryCount given to poll
MaxRetryCount == 2
\* invocations of the promise function in one call of poll
MaxAttempts == 4
\* handlers given to preventable
MaxHandlers == 2
\* statements of one handler
MaxOps == 2
\* calls of one preventable wrapper
MaxWrapperCalls == 2
\* operations applied to one HashMap
MaxMapOps == 4
\* operations applied to one HashSet
MaxSetOps == 4
\* entries of a navigation stack
MaxStackLen == 3
\* largest count given to pop
MaxPopCount == 4
\* navigation calls made in one event handler
MaxBatch == 2
\* event handlers run on one StackNavigation
MaxEvents == 3
\* calls of one suspensify reader
MaxReads == 4

(***************************************************************************)
(* Values.                                                                 *)
(***************************************************************************)
Undefined == [kind |-> "undefined", id |-> 0]
Null == [kind |-> "null", id |-> 0]
NaN == [kind |-> "nan", id |-> 0]
Num(n) == [kind |-> "number", id |-> n]
Fn(i) == [kind |-> "function", id |-> i]
Obj(i) == [kind |-> "object", id |-> i]
Str(i) == [kind |-> "string", id |-> i]

\* the string '[Circular]' pushed by the 'mark' policy
CircularSentinel == Str(0)
\* the function Object, which every plain object inherits as .constructor
ObjectFn == Fn(0)

Objects == 1..NumObjects
Keys == {"a", "b", "constructor"}
Primitives == {Undefined, Null, NaN, Num(1)}
Functions == {Fn(1), Fn(2)}
Refs == {Obj(i) : i \in Objects}
Values == Primitives \cup Functions \cup Refs

\* typeof v
TypeOf(v) ==
  CASE v.kind = "null" -> "object"
    [] v.kind = "nan" -> "number"
    [] OTHER -> v.kind

\* v === w : identity of references, equality of primitives, NaN !== NaN
\* a strict equality under which any two functions are equal
StrictEqualsCallables(v, w) ==
  \/ v = w /\ v.kind # "nan"
  \/ v.kind = "function" /\ w.kind = "function"

StrictEquals(v, w) == v = w /\ v.kind # "nan"

IsObject(v) == v.kind = "object"

(***************************************************************************)
(* Strings as token sequences.                                             *)
(***************************************************************************)
RECURSIVE Join(_)
\* path.join('.')
Join(path) ==
  IF path = <<>> THEN <<>>
  ELSE IF Len(path) = 1 THEN <<path[1]>>
  ELSE <<path[1], ".">> \o Join(Tail(path))

\* s.startsWith(prefix)
StartsWith(s, prefix) ==
  Len(prefix) <= Len(s) /\ SubSeq(s, 1, Len(prefix)) = prefix

(***************************************************************************)
(* The heap: each object is the ordered list of its own enumerable         *)
(* properties.  Object.prototype contributes the inherited, non-enumerable *)
(* property "constructor".                                                 *)
(***************************************************************************)
VARIABLES heap, left, right, options, pc, result, message, calls, steps, entered,
          closure, given, earlier

diffVars ==
  <<heap, left, right, options, pc, result, message, calls, steps, entered,
    closure, given, earlier>>

\* poll: the options of the call, the locals retryCount, history and
\* pollNumber, where the call stands, whether the signal is aborted, how the
\* returned promise settled, the settlements of the promise function and the
\* delays it waited for
VARIABLES pollOptions, retryCount, history, pollNumber, pollPc, aborted,
          settlement, attempts, waits

pollVars ==
  <<pollOptions, retryCount, history, pollNumber, pollPc, aborted, settlement, attempts,
    waits>>

\* preventable: the arguments defaultAction and handlers, and for the wrapper
\* they gave: where it stands, the _prevented and args of the current call,
\* the handler the loop is at, what happened in the call so far, how the call
\* ended and the calls made
VARIABLES defaultAction, handlers, wrapperPc, prevented, args, handlerIndex, trace,
          outcome, callsMade, continuations, deferred

preventVars ==
  <<defaultAction, handlers, wrapperPc, prevented, args, handlerIndex, trace, outcome,
    callsMade, continuations, deferred>>

\* HashMap: options.getHash, the fields map and hashedKeys (a Map is the
\* sequence of its entries in insertion order), what the last operation
\* returned and the operations applied; reference is a map from hash values
\* to the last value set and expected is what it answers to the same operation
VARIABLES getHash, map, hashedKeys, returned, mapOps, reference, expected

hashMapVars == <<getHash, map, hashedKeys, returned, mapOps, reference, expected>>

\* HashSet: options.getHash, the field map, what the last operation returned
\* and the operations applied
VARIABLES setGetHash, setMap, setReturned, setOps

hashSetVars == <<setGetHash, setMap, setReturned, setOps>>

\* StackNavigation: the state stack of the last render, the updates queued by
\* setStack since then, the navigation calls the running event handler has
\* made, and for the last handler that returned: its calls and the stack it
\* started from; events counts the handlers run
VARIABLES stack, updates, navCalls, lastCalls, before, events

stackVars == <<stack, updates, navCalls, lastCalls, before, events>>

\* no StackNavigation mounted
StackIdle ==
  /\ stack = <<>>
  /\ updates = <<>>
  /\ navCalls = <<>>
  /\ lastCalls = <<>>
  /\ before = <<>>
  /\ events = -1

\* suspensify: the state of the wrapped promise, the locals status, result and
\* error, the calls of the reader and the assignments made to status
VARIABLES settled, status, readerResult, readerError, reads, changes

readerVars == <<settled, status, readerResult, readerError, reads, changes>>

\* no suspensify reader
ReaderIdle ==
  /\ settled = <<>>
  /\ status = "none"
  /\ readerResult = "unset"
  /\ readerError = "unset"
  /\ reads = <<>>
  /\ changes = 0

\* no HashMap
HashMapIdle ==
  /\ getHash = "none"
  /\ map = <<>>
  /\ hashedKeys = <<>>
  /\ returned = <<>>
  /\ mapOps = 0
  /\ reference = <<>>
  /\ expected = <<>>

\* no HashSet
HashSetIdle ==
  /\ setGetHash = "none"
  /\ setMap = <<>>
  /\ setReturned = <<>>
  /\ setOps = 0

\* no preventable wrapper
PreventIdle ==
  /\ defaultAction = <<>>
  /\ handlers = <<>>
  /\ wrapperPc = "idle"
  /\ prevented = FALSE
  /\ args = <<>>
  /\ handlerIndex = 0
  /\ trace = <<>>
  /\ outcome = <<>>
  /\ callsMade = 0
  /\ continuations = <<>>
  /\ deferred = 0

\* no call of poll
PollIdle ==
  /\ pollOptions = <<>>
  /\ retryCount = 0
  /\ history = <<>>
  /\ pollNumber = 0
  /\ pollPc = "idle"
  /\ aborted = FALSE
  /\ settlement = <<>>
  /\ attempts = <<>>
  /\ waits = <<>>

ProtoKeys == {"constructor"}

\* Object.keys(o): own enumerable string keys in insertion order
ObjectKeys(o) == [i \in 1..Len(heap[o.id]) |-> heap[o.id][i].key]

HasOwn(o, key) == \E i \in 1..Len(heap[o.id]) : heap[o.id][i].key = key

\* a presence test that takes a property holding undefined for a missing one
HasPropertyDefined(o, key) ==
  /\ HasOwn(o, key) \/ key \in ProtoKeys
  /\ \A i \in 1..Len(heap[o.id]) : heap[o.id][i].key = key => heap[o.id][i].val # Undefined

\* key in o : own or inherited
HasProperty(o, key) == HasOwn(o, key) \/ key \in ProtoKeys

\* o[key]
GetProperty(o, key) ==
  IF HasOwn(o, key)
  THEN heap[o.id][CHOOSE i \in 1..Len(heap[o.id]) : heap[o.id][i].key = key].val
  ELSE IF key \in ProtoKeys THEN ObjectFn
  ELSE Undefined

(***************************************************************************)
(* Options (DiffOptions) after the destructuring with defaults.            *)
(* maxDepth is a finite integer or Number.POSITIVE_INFINITY.               *)
(* compareWith is a set of entries [path, pred]; a predicate is            *)
(* represented by the answer it gives ("true" or "false").                 *)
(***************************************************************************)
Infinity == [inf |-> TRUE, n |-> 0]
Finite(n) == [inf |-> FALSE, n |-> n]

DefaultOptions ==
  [ignorePaths |-> {}, ignoreTypes |-> {}, compareWith |-> {},
   circularRefs |-> "mark", maxDepth |-> Infinity]

\* ignorePaths.some(p => path.join('.') === p || path.join('.').startsWith(`${p}.`))
shouldIgnorePath(opts, path) ==
  \E ignorePath \in opts.ignorePaths :
    \/ Join(path) = ignorePath
    \/ StartsWith(Join(path), ignorePath \o <<".">>)

\* ignoreTypes.includes(typeof value)
shouldIgnoreType(opts, value) == TypeOf(value) \in opts.ignoreTypes

\* depth > maxDepth
DepthExceeded(depth, maxDepth) == ~maxDepth.inf /\ depth > maxDepth.n

\* typeof left !== 'object' || typeof right !== 'object' || left === null || right === null
IsPrimitivePair(l, r) ==
  \/ TypeOf(l) # "object"
  \/ TypeOf(r) # "object"
  \/ l = Null
  \/ r = Null

\* the record pushed for two values that are not both containers
PrimitiveRecord(l, r, path) ==
  IF r = Undefined /\ l # Undefined
  THEN [type |-> "deleted", path |-> path, value |-> l]
  ELSE IF l = Undefined /\ r # Undefined
  THEN [type |-> "added", path |-> path, value |-> r]
  ELSE [type |-> "updated", path |-> path, oldValue |-> l, newValue |-> r]

\* the record pushed by circularRefs 'mark'
CircularRecord(path) ==
  [type |-> "updated", path |-> path,
   oldValue |-> CircularSentinel, newValue |-> CircularSentinel]

\* compareWith[pathStr]: an own entry, else what a plain object inherits
\* from Object.prototype ("constructor" is the function Object), else undefined
CompareWithLookup(opts, pathStr) ==
  IF \E e \in opts.compareWith : e.path = pathStr
  THEN (CHOOSE e \in opts.compareWith : e.path = pathStr).pred
  ELSE IF Len(pathStr) = 1 /\ pathStr[1] \in ProtoKeys THEN "Object"
  ELSE "undefined"

\* compareWith[pathStr]?.(left, right) is truthy; Object(left, right) returns
\* left, an object, which is truthy
ComparatorAccepts(pred, l, r) == pred \in {"true", "Object"}

\* visited.has(left) || visited.has(right)
\* a visited test that never recognises a container
AlreadyVisitedNever(visited, l, r) == FALSE

AlreadyVisited(visited, l, r) == l.id \in visited \/ r.id \in visited

\* a key union that enumerates the right keys first
allKeysRightFirst(l, r) ==
  ObjectKeys(r) \o SelectSeq(ObjectKeys(l), LAMBDA k : ~HasOwn(r, k))

\* [...new Set([...leftKeys, ...rightKeys])]
allKeys(l, r) ==
  ObjectKeys(l) \o SelectSeq(ObjectKeys(r), LAMBDA k : ~HasOwn(l, k))

\* frames the recursion may use; no input of the model needs as many
StackLimit == NumObjects + 2

\* a call that starts from the visited set an earlier call left behind
LeakedCall ==
  [diffs |-> <<>>, visited |-> closure, status |-> "ok", message |-> <<>>, calls |-> 0,
   steps |-> 0, entered |-> {}]

\* the mutable state of one call: diffs, visited, how the call ended (status,
\* message), two counters (comparator invocations and traverse invocations)
\* and the paths of the container pairs whose keys were enumerated
NewCall ==
  [diffs |-> <<>>, visited |-> {}, status |-> "ok", message |-> <<>>, calls |-> 0,
   steps |-> 0, entered |-> {}]

Push(st, rec) == [st EXCEPT !.diffs = Append(@, rec)]

RECURSIVE traverse(_, _, _, _, _, _)
RECURSIVE forEachKey(_, _, _, _, _, _, _)

\* const traverse = (left, right, path = [], depth = 0) => {...}
traverse(st0, opts, l, r, path, depth) ==
  LET st == [st0 EXCEPT !.steps = @ + 1]
  IN
  IF depth >= StackLimit THEN [st EXCEPT !.status = "overflow"]
  ELSE IF DepthExceeded(depth, opts.maxDepth) THEN st
  ELSE IF IsPrimitivePair(l, r)
  THEN IF ~StrictEquals(l, r) /\ ~shouldIgnorePath(opts, path)
       THEN Push(st, PrimitiveRecord(l, r, path))
       ELSE st
  ELSE LET pred == CompareWithLookup(opts, Join(path))
           st1 == IF pred = "undefined" THEN st ELSE [st EXCEPT !.calls = @ + 1]
       IN IF ComparatorAccepts(pred, l, r) THEN st1
          ELSE IF AlreadyVisited(st1.visited, l, r)
          THEN CASE opts.circularRefs = "error" ->
                      [st1 EXCEPT !.status = "thrown", !.message = Join(path)]
                 [] opts.circularRefs = "mark" -> Push(st1, CircularRecord(path))
                 [] OTHER -> st1
          ELSE forEachKey([st1 EXCEPT !.visited = @ \cup {l.id, r.id},
                                      !.entered = @ \cup {path}],
                          opts, l, r, path, depth, allKeys(l, r))

\* for (const key of allKeys) {...}
forEachKey(st, opts, l, r, path, depth, keys) ==
  IF keys = <<>> \/ st.status # "ok" THEN st
  ELSE LET key == Head(keys)
           newPath == Append(path, key)
           leftValue == GetProperty(l, key)
           rightValue == GetProperty(r, key)
           st1 ==
             IF ~HasProperty(r, key)
             THEN IF ~shouldIgnorePath(opts, newPath) /\ ~shouldIgnoreType(opts, leftValue)
                  THEN Push(st, [type |-> "deleted", path |-> newPath, value |-> leftValue])
                  ELSE st
             ELSE IF ~HasProperty(l, key)
             THEN IF ~shouldIgnorePath(opts, newPath) /\ ~shouldIgnoreType(opts, rightValue)
                  THEN Push(st, [type |-> "added", path |-> newPath, value |-> rightValue])
                  ELSE st
             ELSE traverse(st, opts, leftValue, rightValue, newPath, depth + 1)
       IN forEachKey(st1, opts, l, r, path, depth, Tail(keys))

\* export const objectDiff = (left, right, options = {}) => {...}
objectDiff(l, r, opts) ==
  IF StrictEquals(l, r) THEN NewCall
  ELSE traverse(NewCall, opts, l, r, <<>>, 0)

(***************************************************************************)
(* Inputs.  A heap is built by a sequence of property assignments          *)
(* o[key] = val on fresh objects, so own keys are in insertion order.      *)
(***************************************************************************)
Assignments == [obj : Objects, key : Keys, val : Values]

DistinctSlots(ins) ==
  \A i, j \in 1..Len(ins) :
    i # j => (ins[i].obj # ins[j].obj \/ ins[i].key # ins[j].key)

InsertionSeqs(n) ==
  {ins \in UNION {[1..k -> Assignments] : k \in 0..n} : DistinctSlots(ins)}

PropertiesOf(ins, o) ==
  LET mine == SelectSeq(ins, LAMBDA t : t.obj = o)
  IN [i \in 1..Len(mine) |-> [key |-> mine[i].key, val |-> mine[i].val]]

BuildHeap(ins) == [o \in Objects |-> PropertiesOf(ins, o)]

EmptyHeap == [o \in Objects |-> <<>>]

\* the values of o's own properties in heap h
OwnValues(h, o) == {h[o][i].val : i \in 1..Len(h[o])}

RECURSIVE ReachableFrom(_, _, _)
\* object ids reachable in heap h from the ids in seen, in at most n steps
ReachableFrom(h, seen, n) ==
  IF n = 0 THEN seen
  ELSE LET vals == UNION {OwnValues(h, o) : o \in seen}
       IN ReachableFrom(h, seen \cup {v.id : v \in vals \cap Refs}, n - 1)

RootIds(l, r) == {v.id : v \in {l, r} \cap Refs}

\* properties only on objects the roots reach; none when a root is no object
NoGarbage(h, l, r) ==
  \A o \in Objects :
    h[o] # <<>> => /\ IsObject(l) /\ IsObject(r)
                   /\ o \in ReachableFrom(h, RootIds(l, r), NumObjects)

\* root pairs, objects numbered in order of appearance
RootPairs ==
  {rp \in Values \X Values :
     /\ IsObject(rp[1]) => rp[1] = Obj(1)
     /\ IsObject(rp[2]) => rp[2].id <= (IF IsObject(rp[1]) THEN 2 ELSE 1)}

IgnorePathPool == {<<"a">>, <<"a", ".", "b">>}
IgnoreTypePool == {"function", "undefined"}
CompareWithPool ==
  {{}, {[path |-> <<"a">>, pred |-> "true"]}, {[path |-> <<"a">>, pred |-> "false"]},
   {[path |-> <<"a", ".", "b">>, pred |-> "true"]}}
MaxDepthPool == {Infinity} \cup {Finite(n) : n \in (0 - 1)..MaxDepthBound}

AllOptions ==
  [ignorePaths : SUBSET IgnorePathPool, ignoreTypes : SUBSET IgnoreTypePool,
   compareWith : CompareWithPool, circularRefs : {"ignore", "mark", "error"},
   maxDepth : MaxDepthPool]

NonDefault(opts) ==
  Cardinality({f \in DOMAIN DefaultOptions : opts[f] # DefaultOptions[f]})

OptionChoices == {opts \in AllOptions : NonDefault(opts) <= MaxNonDefault}

\* the general family: any values, few properties, several options
GeneralInput ==
  /\ \E ins \in InsertionSeqs(MaxFields), rp \in RootPairs :
       /\ NoGarbage(BuildHeap(ins), rp[1], rp[2])
       /\ heap = BuildHeap(ins)
       /\ left = rp[1]
       /\ right = rp[2]
  /\ options \in OptionChoices

\* the two-key family: two root objects that each hold both "a" and "b", in
\* either order, with a number, undefined, a shared third object or the root
\* itself as values; only the circular-reference policy varies
TwoKeyValues(o) == {Num(1), Undefined, Obj(NumObjects), Obj(o)}

TwoKeyObject(o) ==
  {<<[key |-> ks[1], val |-> v1], [key |-> ks[2], val |-> v2]>> :
     ks \in {<<"a", "b">>, <<"b", "a">>}, v1 \in TwoKeyValues(o), v2 \in TwoKeyValues(o)}

TwoKeyInput ==
  /\ left = Obj(1)
  /\ right = Obj(2)
  /\ heap \in {[EmptyHeap EXCEPT ![1] = p1, ![2] = p2] :
                 p1 \in TwoKeyObject(1), p2 \in TwoKeyObject(2)}
  /\ options \in {[DefaultOptions EXCEPT !.circularRefs = c] :
                    c \in {"ignore", "mark", "error"}}

DiffInit ==
  /\ GeneralInput \/ TwoKeyInput
  /\ pc = "ready"
  /\ result = <<>>
  /\ message = <<>>
  /\ calls = 0
  /\ steps = 0
  /\ entered = {}
  /\ closure = {}
  /\ given = <<heap, left, right, options>>
  /\ earlier = <<>>
  /\ PollIdle
  /\ PreventIdle
  /\ HashMapIdle
  /\ HashSetIdle
  /\ StackIdle
  /\ ReaderIdle

\* one call objectDiff(left, right, options), run to its end
Diff ==
  /\ pc = "ready"
  /\ LET call == objectDiff(left, right, options)
     IN /\ pc' = (IF call.status = "ok" THEN "returned" ELSE call.status)
        /\ result' = (IF call.status = "ok" THEN call.diffs ELSE <<>>)
        /\ message' = call.message
        /\ calls' = call.calls
        /\ steps' = call.steps
        /\ entered' = call.entered
        /\ closure' = call.visited
  /\ UNCHANGED <<heap, left, right, options, given, earlier>>
  /\ UNCHANGED <<pollVars, preventVars, hashMapVars, hashSetVars, stackVars, readerVars>>

DiffNext == Diff

DiffSpec == DiffInit /\ [][DiffNext]_diffVars

\* the tree family: two root objects with at most one key each, whose value
\* is a defined primitive, null or a child object of its own with at most one
\* key; nothing is shared and the options are the defaults
TreeLeaves == Primitives \ {Undefined}

TreeChild == {<<>>} \cup {<<[key |-> k, val |-> v]>> : k \in Keys, v \in TreeLeaves}

TreeRoot(child) ==
  {<<>>} \cup {<<[key |-> k, val |-> v]>> : k \in Keys, v \in TreeLeaves \cup {child}}

TreeInput ==
  /\ left = Obj(1)
  /\ right = Obj(2)
  /\ \E r1 \in TreeRoot(Obj(3)), r2 \in TreeRoot(Obj(4)), c1, c2 \in TreeChild :
       /\ (c1 # <<>> => (r1 # <<>> /\ r1[1].val = Obj(3)))
       /\ (c2 # <<>> => (r2 # <<>> /\ r2[1].val = Obj(4)))
       /\ heap = <<r1, r2, c1, c2>>
  /\ options = DefaultOptions

TreeInit ==
  /\ TreeInput
  /\ pc = "ready"
  /\ result = <<>>
  /\ message = <<>>
  /\ calls = 0
  /\ steps = 0
  /\ entered = {}
  /\ closure = {}
  /\ given = <<heap, left, right, options>>
  /\ earlier = <<>>
  /\ PollIdle
  /\ PreventIdle
  /\ HashMapIdle
  /\ HashSetIdle
  /\ StackIdle
  /\ ReaderIdle

TreeSpec == TreeInit /\ [][DiffNext]_diffVars

\* how the call ended, as its caller sees it
Outcome == [pc |-> pc, result |-> result, message |-> message]

\* the caller keeps the outcome and calls objectDiff again with the same
\* arguments, also after a call that threw
CallAgain ==
  /\ pc \in {"returned", "thrown"}
  /\ Len(earlier) + 1 < MaxCalls
  /\ earlier' = Append(earlier, Outcome)
  /\ pc' = "ready"
  /\ result' = <<>>
  /\ message' = <<>>
  /\ calls' = 0
  /\ steps' = 0
  /\ entered' = {}
  /\ UNCHANGED <<heap, left, right, options, closure, given>>
  /\ UNCHANGED <<pollVars, preventVars, hashMapVars, hashSetVars, stackVars, readerVars>>

\* repeated calls, on the inputs with at most one option set
RepeatInit == DiffInit /\ NonDefault(options) <= 1

RepeatNext == Diff \/ CallAgain

RepeatSpec == RepeatInit /\ [][RepeatNext]_diffVars

\* no call of objectDiff
DiffIdle ==
  /\ heap = EmptyHeap
  /\ left = Undefined
  /\ right = Undefined
  /\ options = DefaultOptions
  /\ pc = "idle"
  /\ result = <<>>
  /\ message = <<>>
  /\ calls = 0
  /\ steps = 0
  /\ entered = {}
  /\ closure = {}
  /\ given = <<>>
  /\ earlier = <<>>

(***************************************************************************)
(* Part 2: @tstsx/poll, poll(promise, options)                             *)
(*   (packages/vanilla/poll/src/isAbortError.ts, lines 134-222).           *)
(*                                                                         *)
(* One call of poll is a process that stands at the top of the do-while    *)
(* loop ("top"), awaits the promise function ("calling"), awaits the timer *)
(* after a result it continues on ("waitingToContinue") or after a failure *)
(* ("waitingToRetry"), or has settled ("done").  The promise function, the *)
(* timer and the holder of the AbortController act from outside.           *)
(***************************************************************************)
\* what the promise function fulfils with, and what it rejects with
PollValues == {"success", "retry", "bad"}
PollErrors == {"Error", "AbortError"}

\* a history entry: [null, value] or [error, null]
SuccessResult(v) == <<"null", v>>
FailResult(e) == <<e, "null">>

\* a test that takes no error for an abort
isAbortErrorNever(e) == FALSE

\* export const isAbortError = (e) => e instanceof DOMException && e.name === 'AbortError'
isAbortError(e) == e = "AbortError"

\* const defaultShouldContinue = () => false
defaultShouldContinue(v) == "false"

\* the shouldContinue of the caller: stop on "success", continue on "retry",
\* and throw on a value it was not written for
customShouldContinue(v) ==
  CASE v = "success" -> "false"
    [] v = "retry" -> "true"
    [] OTHER -> "throws"

shouldContinue(v) ==
  IF pollOptions.shouldContinue = "custom" THEN customShouldContinue(v)
  ELSE defaultShouldContinue(v)

\* typeof interval === 'function' ? interval(pollNumber) : interval
\* the delay of a wait: the number given, or what the function returns for n
IntervalOf(n) ==
  IF pollOptions.interval = "function" THEN <<"interval", n>> ELSE <<"interval">>

PollOptionChoices ==
  [interval : {"number", "function"},
   retryCount : 0..MaxRetryCount,
   shouldContinue : {"default", "custom"},
   signal : BOOLEAN]

PollInit ==
  /\ pollOptions \in PollOptionChoices
  /\ retryCount = pollOptions.retryCount
  /\ history = <<>>
  /\ pollNumber = 0
  /\ pollPc = "top"
  /\ aborted \in (IF pollOptions.signal THEN BOOLEAN ELSE {FALSE})
  /\ settlement = [state |-> "pending"]
  /\ attempts = <<>>
  /\ waits = <<>>
  /\ DiffIdle
  /\ PreventIdle
  /\ HashMapIdle
  /\ HashSetIdle
  /\ StackIdle
  /\ ReaderIdle

Resolved(v, h) == [state |-> "fulfilled", result |-> v, history |-> h]
Rejected(e) == [state |-> "rejected", error |-> e]
RejectedPollError(h) == [state |-> "rejected", error |-> "PollError", results |-> h]

\* a signal that never reports the abort
ThrowIfAbortedNever == FALSE

\* signal?.throwIfAborted() throws
ThrowIfAborted == pollOptions.signal /\ aborted

\* signal?.throwIfAborted(), then promise() is invoked
CheckSignal ==
  /\ pollPc = "top"
  /\ IF ThrowIfAborted
     THEN /\ settlement' = Rejected("AbortError")
          /\ pollPc' = "done"
     ELSE /\ Len(attempts) < MaxAttempts
          /\ pollPc' = "calling"
          /\ UNCHANGED settlement
  /\ UNCHANGED <<pollOptions, retryCount, history, pollNumber, aborted, attempts, waits>>
  /\ UNCHANGED <<diffVars, preventVars, hashMapVars, hashSetVars, stackVars, readerVars>>

\* the catch block with error e, entered with the history h:
\* retryCount -= 1; history.push([e, null]); await wait(interval)
Catch(e, h) ==
  /\ retryCount' = retryCount - 1
  /\ history' = Append(h, FailResult(e))
  /\ waits' = Append(waits, IntervalOf(pollNumber))
  /\ pollPc' = "waitingToRetry"
  /\ UNCHANGED <<settlement, pollNumber>>

\* the promise function fulfils with v: the rest of the try block
Fulfil ==
  /\ pollPc = "calling"
  /\ \E v \in PollValues :
       /\ attempts' = Append(attempts, <<"fulfilled", v>>)
       /\ LET pushed == Append(history, SuccessResult(v))
          IN CASE shouldContinue(v) = "false" ->
                    /\ settlement' = Resolved(v, pushed)
                    /\ history' = pushed
                    /\ pollNumber' = pollNumber + 1
                    /\ pollPc' = "done"
                    /\ UNCHANGED <<retryCount, waits>>
               [] shouldContinue(v) = "true" ->
                    /\ history' = pushed
                    /\ waits' = Append(waits, IntervalOf(pollNumber))
                    /\ pollPc' = "waitingToContinue"
                    /\ UNCHANGED <<settlement, pollNumber, retryCount>>
               [] OTHER -> Catch("PredicateError", pushed)
  /\ UNCHANGED <<pollOptions, aborted>>
  /\ UNCHANGED <<diffVars, preventVars, hashMapVars, hashSetVars, stackVars, readerVars>>

\* the promise function rejects with e: the catch block
Reject ==
  /\ pollPc = "calling"
  /\ \E e \in PollErrors :
       /\ attempts' = Append(attempts, <<"rejected", e>>)
       /\ IF isAbortError(e)
          THEN /\ settlement' = Rejected(e)
               /\ pollNumber' = pollNumber + 1
               /\ pollPc' = "done"
               /\ UNCHANGED <<retryCount, history, waits>>
          ELSE Catch(e, history)
  /\ UNCHANGED <<pollOptions, aborted>>
  /\ UNCHANGED <<diffVars, preventVars, hashMapVars, hashSetVars, stackVars, readerVars>>

\* the timer of wait fires: finally { pollNumber += 1 }, while (retryCount >= 0),
\* throw new PollError(history)
TimerFires ==
  /\ pollPc \in {"waitingToContinue", "waitingToRetry"}
  /\ pollNumber' = pollNumber + 1
  /\ IF retryCount >= 0
     THEN /\ pollPc' = "top"
          /\ UNCHANGED settlement
     ELSE /\ settlement' = RejectedPollError(history)
          /\ pollPc' = "done"
  /\ UNCHANGED <<pollOptions, retryCount, history, aborted, attempts, waits>>
  /\ UNCHANGED <<diffVars, preventVars, hashMapVars, hashSetVars, stackVars, readerVars>>

\* the holder of the AbortController aborts while the call has not settled
Abort ==
  /\ pollOptions.signal
  /\ ~aborted
  /\ pollPc # "done"
  /\ aborted' = TRUE
  /\ UNCHANGED <<pollOptions, retryCount, history, pollNumber, pollPc, settlement, attempts,
                 waits>>
  /\ UNCHANGED <<diffVars, preventVars, hashMapVars, hashSetVars, stackVars, readerVars>>

PollNext == CheckSignal \/ Fulfil \/ Reject \/ TimerFires \/ Abort

PollSpec == PollInit /\ [][PollNext]_pollVars

(***************************************************************************)
(* Part 3: @tstsx/preventable, preventable(defaultAction, handlers)        *)
(*   (packages/vanilla/preventable/src/preventable.ts).                    *)
(*                                                                         *)
(* A function is a record [kind, ...]: kind "async" for an async function  *)
(* (its Symbol.toStringTag is 'AsyncFunction'), "function" otherwise.  A   *)
(* handler has a script, the statements it runs on the event:              *)
(*   "preventDefault"  event.preventDefault()                              *)
(*   "preventIfAsked"  if (event.params[0] === 'prevent')                  *)
(*                       event.preventDefault()                            *)
(*   "default"         event.default('custom'); in the async wrapper the   *)
(*                     handler awaits or returns its promise               *)
(*   "throw"           throw new Error(...)                                *)
(*   "fire"            event.default('custom') whose promise the handler   *)
(*                     neither awaits nor returns                          *)
(*   "await"           the handler waits for a promise of its own (await,  *)
(*                     or the rest of the script in a then callback)       *)
(* A function of kind "promise" is a plain function that returns a         *)
(* promise: its Symbol.toStringTag is not 'AsyncFunction'.                 *)
(* continuations holds, for each handler that waits, the statements it has *)
(* yet to run; deferred counts the calls of the async event.default that   *)
(* have invoked the default action and wait for its promise before their   *)
(* this.preventDefault().                                                  *)
(* The default action returns, or throws when defaultAction.throws.        *)
(* trace lists what happened in the current call: <<"handler", i>> when    *)
(* handler i is invoked, <<"preventDefault", i>>, <<"throw", i>>, and      *)
(* <<"default", args, by>> when the default action is invoked with args by *)
(* handler by, or by the wrapper itself when by = 0; <<"await", i>> when   *)
(* handler i starts to wait and <<"settled", i>> when its promise settles, *)
(* <<"late", i>> when statements of handler i run after the sync wrapper   *)
(* has returned.                                                           *)
(***************************************************************************)
HandlerOps == {"preventDefault", "preventIfAsked", "default", "throw"}

Scripts == UNION {[1..n -> HandlerOps] : n \in 0..MaxOps}

HandlerChoices == [kind : {"function", "async"}, script : Scripts]

DefaultActionChoices == [kind : {"function", "async"}, throws : BOOLEAN]

WrapperArgs == {"prevent", "allow"}

\* function isVoidPromiseLike(fn)
isVoidPromiseLike(fn) == fn.kind = "async"

\* if (isVoidPromiseLike(defaultAction) || handlers.some(isVoidPromiseLike))
AsyncWrapper ==
  isVoidPromiseLike(defaultAction) \/ \E i \in DOMAIN handlers : isVoidPromiseLike(handlers[i])

PreventInit ==
  /\ defaultAction \in DefaultActionChoices
  /\ handlers \in UNION {[1..n -> HandlerChoices] : n \in 0..MaxHandlers}
  /\ wrapperPc = "created"
  /\ prevented = FALSE
  /\ args = <<>>
  /\ handlerIndex = 0
  /\ trace = <<>>
  /\ outcome = <<>>
  /\ callsMade = 0
  /\ continuations = <<>>
  /\ deferred = 0
  /\ DiffIdle
  /\ PollIdle
  /\ HashMapIdle
  /\ HashSetIdle
  /\ StackIdle
  /\ ReaderIdle

\* how a call of the wrapper ends: the sync wrapper returns or throws, the
\* async wrapper's promise fulfils or rejects
Completed == [state |-> IF AsyncWrapper THEN "fulfilled" ELSE "returned", error |-> "none"]
Failed(e) == [state |-> IF AsyncWrapper THEN "rejected" ELSE "threw", error |-> e]

\* a value of _prevented that outlives the call
StalePrevented == prevented

\* let _prevented = false
FreshPrevented == FALSE

\* the wrapper is called with some arguments; what an earlier call left
\* waiting acts on the event of that call, which is followed no further
CallWrapper ==
  /\ wrapperPc \in {"created", "done"}
  /\ callsMade < MaxWrapperCalls
  /\ \E a \in WrapperArgs : args' = <<a>>
  /\ prevented' = FreshPrevented
  /\ handlerIndex' = 1
  /\ trace' = <<>>
  /\ outcome' = <<>>
  /\ callsMade' = callsMade + 1
  /\ wrapperPc' = "handlers"
  /\ continuations' = <<>>
  /\ deferred' = 0
  /\ UNCHANGED <<defaultAction, handlers>>
  /\ UNCHANGED <<diffVars, pollVars, hashMapVars, hashSetVars, stackVars, readerVars>>

\* event.default(...a) called by who: voidFunction(...a); this.preventDefault()
EventDefault(st, a, who) ==
  LET invoked == [st EXCEPT !.trace = Append(@, <<"default", a, who>>)]
  IN IF defaultAction.throws
     THEN [invoked EXCEPT !.error = "DefaultError"]
     ELSE [invoked EXCEPT !.prevented = TRUE]

\* event.default(...a) whose promise is dropped: in the async wrapper
\* voidPromise(...a) is invoked and this.preventDefault() waits for it
FireDefault(st, a, who) ==
  IF AsyncWrapper
  THEN [st EXCEPT !.trace = Append(@, <<"default", a, who>>),
                  !.deferred = IF defaultAction.throws THEN @ ELSE @ + 1]
  ELSE EventDefault(st, a, who)

RECURSIVE RunScript(_, _, _)
\* the statements of handler i, until one throws or waits
RunScript(script, st, i) ==
  IF script = <<>> \/ st.error # "none" \/ st.suspended THEN st
  ELSE LET op == Head(script)
           st1 ==
             CASE op = "preventDefault" ->
                    [st EXCEPT !.prevented = TRUE,
                               !.trace = Append(@, <<"preventDefault", i>>)]
               [] op = "preventIfAsked" ->
                    IF args[1] = "prevent"
                    THEN [st EXCEPT !.prevented = TRUE,
                                    !.trace = Append(@, <<"preventDefault", i>>)]
                    ELSE st
               [] op = "default" -> EventDefault(st, <<"custom">>, i)
               [] op = "fire" -> FireDefault(st, <<"custom">>, i)
               [] op = "await" ->
                    [st EXCEPT !.suspended = TRUE, !.rest = Tail(script),
                               !.trace = Append(@, <<"await", i>>)]
               [] OTHER ->
                    [st EXCEPT !.error = "HandlerError",
                               !.trace = Append(@, <<"throw", i>>)]
       IN RunScript(Tail(script), st1, i)

\* an error of a handler that the wrapper would not pass on
Swallowed(st) == FALSE

\* handler(event) is called without try/catch: its error ends the wrapper
Propagates(st) == st.error # "none"

\* a loop that stops at the first handler that prevented the default
LoopContinuesUnlessPrevented(i) == i <= Len(handlers) /\ ~prevented

\* for (const handler of handlers)
LoopContinues(i) == i <= Len(handlers)

\* a default action that is a plain synchronous function has returned when
\* event.default awaits it: the this.preventDefault() that follows is a job
\* queued before any job that lets a handler or the wrapper go on
QueueDrained == defaultAction.kind = "function" => deferred = 0

\* the state a handler starts or resumes from
HandlerState(tr) ==
  [prevented |-> prevented, error |-> "none", trace |-> tr, deferred |-> deferred,
   suspended |-> FALSE, rest |-> <<>>]

\* handler(event), awaited in the async wrapper
RunHandler ==
  /\ wrapperPc = "handlers"
  /\ LoopContinues(handlerIndex)
  /\ QueueDrained
  /\ LET st0 == HandlerState(Append(trace, <<"handler", handlerIndex>>))
         st == RunScript(handlers[handlerIndex].script, st0, handlerIndex)
     IN /\ prevented' = st.prevented
        /\ trace' = st.trace
        /\ deferred' = st.deferred
        /\ IF Propagates(st)
           THEN /\ outcome' = Failed(st.error)
                /\ wrapperPc' = "done"
                /\ UNCHANGED <<handlerIndex, continuations>>
           ELSE IF st.suspended
           THEN /\ continuations' =
                     Append(continuations, [handler |-> handlerIndex, script |-> st.rest])
                /\ IF AsyncWrapper
                   THEN /\ wrapperPc' = "awaiting"
                        /\ UNCHANGED <<handlerIndex, outcome>>
                   ELSE /\ handlerIndex' = handlerIndex + 1
                        /\ UNCHANGED <<outcome, wrapperPc>>
           ELSE /\ handlerIndex' = handlerIndex + 1
                /\ UNCHANGED <<outcome, wrapperPc, continuations>>
  /\ UNCHANGED <<defaultAction, handlers, args, callsMade>>
  /\ UNCHANGED <<diffVars, pollVars, hashMapVars, hashSetVars, stackVars, readerVars>>

\* if (!event.defaultPrevented) { event.default(...args) }
RunDefault ==
  /\ wrapperPc = "handlers"
  /\ ~LoopContinues(handlerIndex)
  /\ QueueDrained
  /\ LET st0 == HandlerState(trace)
         st == IF ~prevented THEN EventDefault(st0, args, 0) ELSE st0
     IN /\ prevented' = st.prevented
        /\ trace' = st.trace
        /\ outcome' = (IF st.error # "none" THEN Failed(st.error) ELSE Completed)
  /\ wrapperPc' = "done"
  /\ UNCHANGED <<defaultAction, handlers, args, handlerIndex, callsMade, continuations,
                 deferred>>
  /\ UNCHANGED <<diffVars, pollVars, hashMapVars, hashSetVars, stackVars, readerVars>>

PreventNext == CallWrapper \/ RunHandler \/ RunDefault

PreventSpec == PreventInit /\ [][PreventNext]_preventVars

(***************************************************************************)
(* Functions that return promises: handlers that wait, calls of            *)
(* event.default whose promise is dropped, default actions of every kind.  *)
(***************************************************************************)
AsyncOps == {"preventDefault", "default", "fire", "await"}

AsyncScripts == UNION {[1..n -> AsyncOps] : n \in 0..MaxOps}

FunctionKinds == {"function", "async", "promise"}

\* a plain function that returns no promise of its own cannot wait, and the
\* only promise of event.default it can hand to the wrapper is the one it
\* returns
AsyncHandlerChoices ==
  {h \in [kind : FunctionKinds, script : AsyncScripts] :
     h.kind = "function" =>
       /\ \A n \in DOMAIN h.script : h.script[n] # "await"
       /\ \A n \in DOMAIN h.script : h.script[n] = "default" => n = Len(h.script)}

AsyncDefaultActions == [kind : FunctionKinds, throws : {FALSE}]

AsyncPreventInit ==
  /\ defaultAction \in AsyncDefaultActions
  /\ handlers \in UNION {[1..n -> AsyncHandlerChoices] : n \in 0..MaxHandlers}
  /\ wrapperPc = "created"
  /\ prevented = FALSE
  /\ args = <<>>
  /\ handlerIndex = 0
  /\ trace = <<>>
  /\ outcome = <<>>
  /\ callsMade = 0
  /\ continuations = <<>>
  /\ deferred = 0
  /\ DiffIdle
  /\ PollIdle
  /\ HashMapIdle
  /\ HashSetIdle
  /\ StackIdle
  /\ ReaderIdle

\* the promise of a default action that an event.default awaits settles:
\* await voidPromise(...args) is over and this.preventDefault() runs
DefaultSettles ==
  /\ deferred > 0
  /\ deferred' = deferred - 1
  /\ prevented' = TRUE
  /\ UNCHANGED <<defaultAction, handlers, wrapperPc, args, handlerIndex, trace, outcome,
                 callsMade, continuations>>
  /\ UNCHANGED <<diffVars, pollVars, hashMapVars, hashSetVars, stackVars, readerVars>>

\* what a handler waited for settles and the handler goes on.  The async
\* wrapper is at await handler(event) and goes on when the handler is
\* through; the sync wrapper has not waited: it has run to its end before
\* any handler goes on, and an error of the handler reaches nobody
Resume ==
  /\ QueueDrained
  /\ wrapperPc = (IF AsyncWrapper THEN "awaiting" ELSE "done")
  /\ \E n \in DOMAIN continuations :
       LET c == continuations[n]
           others == SubSeq(continuations, 1, n - 1)
                       \o SubSeq(continuations, n + 1, Len(continuations))
           st0 == HandlerState(IF AsyncWrapper THEN trace
                               ELSE Append(trace, <<"late", c.handler>>))
           st == RunScript(c.script, st0, c.handler)
       IN /\ prevented' = st.prevented
          /\ deferred' = st.deferred
          /\ IF st.suspended /\ ~Propagates(st)
             THEN /\ continuations' =
                       Append(others, [handler |-> c.handler, script |-> st.rest])
                  /\ trace' = st.trace
                  /\ UNCHANGED <<wrapperPc, handlerIndex, outcome>>
             ELSE /\ continuations' = others
                  /\ trace' = Append(st.trace, <<"settled", c.handler>>)
                  /\ IF ~AsyncWrapper
                     THEN UNCHANGED <<wrapperPc, handlerIndex, outcome>>
                     ELSE IF Propagates(st)
                     THEN /\ outcome' = Failed(st.error)
                          /\ wrapperPc' = "done"
                          /\ UNCHANGED handlerIndex
                     ELSE /\ handlerIndex' = handlerIndex + 1
                          /\ wrapperPc' = "handlers"
                          /\ UNCHANGED outcome
  /\ UNCHANGED <<defaultAction, handlers, args, callsMade>>
  /\ UNCHANGED <<diffVars, pollVars, hashMapVars, hashSetVars, stackVars, readerVars>>

AsyncPreventNext == PreventNext \/ DefaultSettles \/ Resume

AsyncPreventSpec == AsyncPreventInit /\ [][AsyncPreventNext]_preventVars

(***************************************************************************)
(* Part 4: @tstsx/collections, HashMap and HashSet                         *)
(*                                                                         *)
(* Both classes keep their entries in Map objects keyed by                 *)
(* options.getHash(key).  A Map is modelled as the sequence of its entries *)
(* [key, value] in insertion order, with the key comparison SameValueZero  *)
(* of the language.  The keys given to the collections are three objects,  *)
(* of which the first and the third have the same id, and NaN; getHash is  *)
(* either the default k => k or obj => obj.id.                             *)
(***************************************************************************)
\* SameValueZero: like === but NaN equals NaN
SameValueZero(a, b) == a = b

MapIndex(m, k) == {i \in 1..Len(m) : SameValueZero(m[i].key, k)}
\* Map.prototype.has
MapHas(m, k) == MapIndex(m, k) # {}
\* Map.prototype.get
MapGet(m, k) ==
  IF MapHas(m, k) THEN m[CHOOSE i \in MapIndex(m, k) : TRUE].value ELSE Undefined
\* Map.prototype.set: an existing entry keeps its place and its key
MapSet(m, k, v) ==
  IF MapHas(m, k)
  THEN [i \in 1..Len(m) |-> IF i \in MapIndex(m, k)
                            THEN [key |-> m[i].key, value |-> v]
                            ELSE m[i]]
  ELSE Append(m, [key |-> k, value |-> v])
\* Map.prototype.delete
MapDelete(m, k) ==
  LET Other(e) == ~SameValueZero(e.key, k) IN SelectSeq(m, Other)
\* Array.from(m.values())
MapValues(m) == [i \in 1..Len(m) |-> m[i].value]

User1 == Obj(1)
User2 == Obj(2)
User3 == Obj(3)
\* user1 = { id: 1 }, user2 = { id: 2 }, user3 = { id: 1 }
IdOf(user) == IF user = User2 THEN Num(2) ELSE Num(1)

HashKeys == {User1, User2, User3, NaN}
HashValues == {Str(1), Str(2)}
HashFns == {"identity", "byId"}

\* options.getHash(key): k => k, or obj => obj.id (undefined for NaN)
Hash(fn, key) ==
  IF fn = "identity" THEN key
  ELSE IF key.kind = "object" THEN IdOf(key) ELSE Undefined

HashMapInit ==
  /\ getHash \in HashFns
  /\ map = <<>>
  /\ hashedKeys = <<>>
  /\ returned = <<>>
  /\ mapOps = 0
  /\ reference = <<>>
  /\ expected = <<>>
  /\ DiffIdle
  /\ PollIdle
  /\ PreventIdle
  /\ HashSetIdle
  /\ StackIdle
  /\ ReaderIdle

\* the reference map: a function from hash values to values
RefHas(h) == h \in DOMAIN reference
RefGet(h) == IF RefHas(h) THEN reference[h] ELSE Undefined
RefSet(h, v) == [x \in DOMAIN reference \cup {h} |-> IF x = h THEN v ELSE reference[x]]
RefDelete(h) == [x \in DOMAIN reference \ {h} |-> reference[x]]
RefSize == Cardinality(DOMAIN reference)

\* get(key)
get(key) == MapGet(map, Hash(getHash, key))
\* has(key)
has(key) == MapHas(map, Hash(getHash, key))
\* get size()
size == Len(map)

Applied ==
  /\ mapOps < MaxMapOps
  /\ mapOps' = mapOps + 1
  /\ UNCHANGED getHash
  /\ UNCHANGED <<diffVars, pollVars, preventVars, hashSetVars, stackVars, readerVars>>

HashMapGet ==
  \E key \in HashKeys :
    /\ returned' = <<"get", key, get(key)>>
    /\ expected' = <<"get", key, RefGet(Hash(getHash, key))>>
    /\ UNCHANGED <<map, hashedKeys, reference>>
    /\ Applied

HashMapHas ==
  \E key \in HashKeys :
    /\ returned' = <<"has", key, has(key)>>
    /\ expected' = <<"has", key, RefHas(Hash(getHash, key))>>
    /\ UNCHANGED <<map, hashedKeys, reference>>
    /\ Applied

HashMapSize ==
  /\ returned' = <<"size", size>>
  /\ expected' = <<"size", RefSize>>
  /\ UNCHANGED <<map, hashedKeys, reference>>
  /\ Applied

\* keys() { return this.hashedKeys.values() }
keys == MapValues(hashedKeys)
\* values() { return this.map.values() }
valuesOfMap == MapValues(map)
\* entries(): for each [hash, value] of map.entries(), [hashedKeys.get(hash)!, value]
entries == [i \in 1..Len(map) |-> <<MapGet(hashedKeys, map[i].key), map[i].value>>]

\* a set that records the key it is given every time
LastKey(hash, key) == MapSet(hashedKeys, hash, key)

\* if (!this.map.has(hash)) { this.hashedKeys.set(hash, key) }
FirstKey(hash, key) ==
  IF ~MapHas(map, hash) THEN MapSet(hashedKeys, hash, key) ELSE hashedKeys

\* set(key, value)
HashMapSet ==
  \E key \in HashKeys, value \in HashValues :
    LET hash == Hash(getHash, key)
    IN /\ hashedKeys' = FirstKey(hash, key)
       /\ map' = MapSet(map, hash, value)
       /\ returned' = <<"set", key, value>>
       /\ reference' = RefSet(hash, value)
       /\ expected' = <<"set", key, value>>
       /\ Applied

\* a delete that leaves the entry in map
KeepEntry(m, hash) == m

\* this.map.delete(hash), reached when hashedKeys.delete(hash) is true
DeleteEntry(m, hash) == MapDelete(m, hash)

\* delete(key): this.hashedKeys.delete(hash) && this.map.delete(hash)
HashMapDelete ==
  \E key \in HashKeys :
    LET hash == Hash(getHash, key)
    IN /\ hashedKeys' = MapDelete(hashedKeys, hash)
       /\ IF MapHas(hashedKeys, hash)
          THEN /\ map' = DeleteEntry(map, hash)
               /\ returned' = <<"delete", key, MapHas(map, hash)>>
          ELSE /\ map' = map
               /\ returned' = <<"delete", key, FALSE>>
       /\ reference' = RefDelete(hash)
       /\ expected' = <<"delete", key, RefHas(hash)>>
       /\ Applied

\* clear()
HashMapClear ==
  /\ map' = <<>>
  /\ hashedKeys' = <<>>
  /\ returned' = <<"clear">>
  /\ reference' = <<>>
  /\ expected' = <<"clear">>
  /\ Applied

HashMapNext ==
  \/ HashMapGet
  \/ HashMapHas
  \/ HashMapSize
  \/ HashMapSet
  \/ HashMapDelete
  \/ HashMapClear

HashMapSpec == HashMapInit /\ [][HashMapNext]_hashMapVars

(***************************************************************************)
(* HashSet keeps one Map from getHash(value) to the value.                 *)
(***************************************************************************)
HashSetInit ==
  /\ setGetHash \in HashFns
  /\ setMap = <<>>
  /\ setReturned = <<>>
  /\ setOps = 0
  /\ DiffIdle
  /\ PollIdle
  /\ PreventIdle
  /\ HashMapIdle
  /\ StackIdle
  /\ ReaderIdle

\* get size()
setSize == Len(setMap)
\* Array.from(set.values()), also what iterating the set yields
values == MapValues(setMap)

SetApplied ==
  /\ setOps < MaxSetOps
  /\ setOps' = setOps + 1
  /\ UNCHANGED setGetHash
  /\ UNCHANGED <<diffVars, pollVars, preventVars, hashMapVars, stackVars, readerVars>>

\* has(key)
HashSetHas(key) ==
  /\ setReturned' = <<"has", key, MapHas(setMap, Hash(setGetHash, key))>>
  /\ UNCHANGED setMap
  /\ SetApplied

\* add(key): this.map.set(this.options.getHash(key), key)
HashSetAdd(key) ==
  /\ setMap' = MapSet(setMap, Hash(setGetHash, key), key)
  /\ setReturned' = <<"add", key>>
  /\ SetApplied

\* delete(key)
HashSetDelete(key) ==
  /\ setMap' = MapDelete(setMap, Hash(setGetHash, key))
  /\ setReturned' = <<"delete", key, MapHas(setMap, Hash(setGetHash, key))>>
  /\ SetApplied

\* clear()
HashSetClear ==
  /\ setMap' = <<>>
  /\ setReturned' = <<"clear">>
  /\ SetApplied

HashSetNext ==
  \/ \E key \in HashKeys : HashSetHas(key)
  \/ \E key \in HashKeys : HashSetAdd(key)
  \/ \E key \in HashKeys : HashSetDelete(key)
  \/ HashSetClear

HashSetSpec == HashSetInit /\ [][HashSetNext]_hashSetVars

(***************************************************************************)
(* Part 5: @tstsx/stack-navigation, the StackNavigation component          *)
(*                                                                         *)
(* stack is React state.  push, pop, clear and popToTop are closures of    *)
(* the last render: what they read as stack is the state of that render,   *)
(* and setStack only queues an update.  When the event handler that called *)
(* them returns, React applies the queued updates in order, each to the    *)
(* result of the one before, and renders the component again.              *)
(***************************************************************************)
Entries == {"hello", "world"}

Stacks == UNION {[1..n -> Entries] : n \in 0..MaxStackLen}

\* a slice that also takes the element at index end
SliceThrough(s, end) ==
  LET n == Len(s)
      to == IF end + 1 < 0 THEN 0 ELSE (IF end + 1 > n THEN n ELSE end + 1)
  IN SubSeq(s, 1, to)

\* Array.prototype.slice(0, end): a negative end counts from the end
Slice(s, end) ==
  LET n == Len(s)
      to == IF end < 0 THEN (IF n + end < 0 THEN 0 ELSE n + end)
            ELSE (IF end > n THEN n ELSE end)
  IN SubSeq(s, 1, to)

\* the argument of setStack applied to the pending state s
ApplyUpdate(u, s) ==
  CASE u.op = "concat" -> Append(s, u.entry)
    [] u.op = "slice" -> Slice(s, Len(s) - u.count)
    [] u.op = "top" -> Slice(s, 1)
    [] OTHER -> <<>>

RECURSIVE ApplyUpdates(_, _)
ApplyUpdates(us, s) ==
  IF us = <<>> THEN s ELSE ApplyUpdates(Tail(us), ApplyUpdate(Head(us), s))

\* useState(() => initialStack || (entries ? [entries[0]] : []))
StackInit ==
  /\ stack \in {s \in Stacks : Len(s) < MaxStackLen}
  /\ updates = <<>>
  /\ navCalls = <<>>
  /\ lastCalls = <<>>
  /\ before = stack
  /\ events = 0
  /\ DiffIdle
  /\ PollIdle
  /\ PreventIdle
  /\ HashMapIdle
  /\ HashSetIdle
  /\ ReaderIdle

\* a navigation function is called in an event handler
NavCalled(call) ==
  /\ events < MaxEvents
  /\ Len(navCalls) < MaxBatch
  /\ navCalls' = Append(navCalls, call)
  /\ UNCHANGED <<stack, lastCalls, before, events>>
  /\ UNCHANGED <<diffVars, pollVars, preventVars, hashMapVars, hashSetVars, readerVars>>

\* push(entry)
push ==
  \E entry \in Entries :
    /\ Len(stack) + Len(updates) < MaxStackLen
    /\ updates' = Append(updates, [op |-> "concat", entry |-> entry])
    /\ NavCalled([op |-> "push", entry |-> entry])

\* pop(count = 1)
pop ==
  \E count \in 1..MaxPopCount :
    /\ IF Len(stack) = 0
       THEN UNCHANGED updates
       ELSE updates' = Append(updates, [op |-> "slice", count |-> count])
    /\ NavCalled([op |-> "pop", count |-> count])

\* clear()
clear ==
  /\ updates' = Append(updates, [op |-> "set"])
  /\ NavCalled([op |-> "clear"])

\* popToTop()
popToTop ==
  /\ IF Len(stack) = 0
     THEN UNCHANGED updates
     ELSE updates' = Append(updates, [op |-> "top"])
  /\ NavCalled([op |-> "popToTop"])

\* the event handler returns: React applies the queue and renders again
Render ==
  /\ navCalls # <<>>
  /\ stack' = ApplyUpdates(updates, stack)
  /\ updates' = <<>>
  /\ navCalls' = <<>>
  /\ lastCalls' = navCalls
  /\ before' = stack
  /\ events' = events + 1
  /\ UNCHANGED <<diffVars, pollVars, preventVars, hashMapVars, hashSetVars, readerVars>>

StackNext == push \/ pop \/ clear \/ popToTop \/ Render

StackSpec == StackInit /\ [][StackNext]_stackVars

(***************************************************************************)
(* Part 6: suspensify(promise)                                             *)
(*                                                                         *)
(* settled is the state of the wrapped promise.  The callbacks given to    *)
(* promise.then run as a job of their own after the promise settled, so    *)
(* the reader can be called between the two.  reads lists, for every call  *)
(* of the reader, the state of the promise and the status at the call and  *)
(* what the call did.                                                      *)
(***************************************************************************)
Fulfilments == {"test data", "other data"}
Reasons == {"test error", "other error"}

Pending == [state |-> "pending", with |-> "none"]

SuspensifyInit ==
  /\ settled = Pending
  /\ status = "pending"
  /\ readerResult = "unset"
  /\ readerError = "unset"
  /\ reads = <<>>
  /\ changes = 0
  /\ DiffIdle
  /\ PollIdle
  /\ PreventIdle
  /\ HashMapIdle
  /\ HashSetIdle
  /\ StackIdle

\* the wrapped promise fulfils with a value or rejects with a reason
Settle ==
  /\ settled = Pending
  /\ \/ \E v \in Fulfilments : settled' = [state |-> "fulfilled", with |-> v]
     \/ \E e \in Reasons : settled' = [state |-> "rejected", with |-> e]
  /\ UNCHANGED <<status, readerResult, readerError, reads, changes>>
  /\ UNCHANGED <<diffVars, pollVars, preventVars, hashMapVars, hashSetVars, stackVars>>

\* res => { status = 'success'; result = res }
OnFulfilled ==
  /\ settled.state = "fulfilled"
  /\ status = "pending"
  /\ status' = "success"
  /\ readerResult' = settled.with
  /\ changes' = changes + 1
  /\ UNCHANGED <<settled, readerError, reads>>
  /\ UNCHANGED <<diffVars, pollVars, preventVars, hashMapVars, hashSetVars, stackVars>>

\* err => { status = 'error'; error = err }
OnRejected ==
  /\ settled.state = "rejected"
  /\ status = "pending"
  /\ status' = "error"
  /\ readerError' = settled.with
  /\ changes' = changes + 1
  /\ UNCHANGED <<settled, readerResult, reads>>
  /\ UNCHANGED <<diffVars, pollVars, preventVars, hashMapVars, hashSetVars, stackVars>>

\* a reader that tests for the error only
ReaderWithoutSuspense ==
  IF status = "error" THEN <<"throws", readerError>>
  ELSE <<"returns", readerResult>>

\* the function suspensify returns
Reader ==
  IF status = "pending" THEN <<"throws", "suspender">>
  ELSE IF status = "error" THEN <<"throws", readerError>>
  ELSE <<"returns", readerResult>>

\* the reader is called
Read ==
  /\ Len(reads) < MaxReads
  /\ reads' = Append(reads, [promise |-> settled, status |-> status, did |-> Reader])
  /\ UNCHANGED <<settled, status, readerResult, readerError, changes>>
  /\ UNCHANGED <<diffVars, pollVars, preventVars, hashMapVars, hashSetVars, stackVars>>

SuspensifyNext == Settle \/ OnFulfilled \/ OnRejected \/ Read

SuspensifySpec == SuspensifyInit /\ [][SuspensifyNext]_readerVars

(***************************************************************************)
(* Vocabulary of the properties.                                           *)
(***************************************************************************)
Called == pc # "ready"
Returned == pc = "returned"

\* the dotted form of the record's path is p or lies under p
AtOrUnder(rec, p) ==
  Join(rec.path) = p \/ StartsWith(Join(rec.path), p \o <<".">>)

\* the values a record carries
Carried(rec) ==
  IF rec.type = "updated" THEN {rec.oldValue, rec.newValue} ELSE {rec.value}

RecordsAt(path) == {i \in DOMAIN result : result[i].path = path}

KeyPaths == UNION {[1..n -> Keys] : n \in 0..(NumObjects - 1)}

RECURSIVE PresentAt(_, _)
\* following path from v, every key is a property (own or inherited)
PresentAt(v, path) ==
  IF path = <<>> THEN TRUE
  ELSE /\ IsObject(v)
       /\ HasProperty(v, Head(path))
       /\ PresentAt(GetProperty(v, Head(path)), Tail(path))

RECURSIVE ValueAt(_, _)
ValueAt(v, path) ==
  IF path = <<>> THEN v ELSE ValueAt(GetProperty(v, Head(path)), Tail(path))

OnBothSides(path) == PresentAt(left, path) /\ PresentAt(right, path)

\* some container the roots reach is reachable from itself
ReferenceCycle ==
  \E o \in ReachableFrom(heap, RootIds(left, right), NumObjects) :
    o \in ReachableFrom(heap, {v.id : v \in OwnValues(heap, o) \cap Refs}, NumObjects)

TotalProperties ==
  LET RECURSIVE Sum(_)
      Sum(n) == IF n = 0 THEN 0 ELSE Len(heap[n]) + Sum(n - 1)
  IN Sum(NumObjects)

Count(seq, x) == Cardinality({i \in DOMAIN seq : seq[i] = x})

SameMultiset(s, t) ==
  /\ Len(s) = Len(t)
  /\ \A i \in DOMAIN s : Count(s, s[i]) = Count(t, s[i])

\* a record as the swapped call should report it
Swapped(rec) ==
  CASE rec.type = "added" -> [rec EXCEPT !.type = "deleted"]
    [] rec.type = "deleted" -> [rec EXCEPT !.type = "added"]
    [] OTHER -> [rec EXCEPT !.oldValue = rec.newValue, !.newValue = rec.oldValue]

SwappedAll(seq) == [i \in DOMAIN seq |-> Swapped(seq[i])]

(***************************************************************************)
(* C1  Depth truncation: with maxDepth = d >= 0 no returned record has a   *)
(* path of more than d segments.                                           *)
(***************************************************************************)
C1_DepthTruncation ==
  (Returned /\ ~options.maxDepth.inf /\ options.maxDepth.n >= 0) =>
    \A i \in DOMAIN result : Len(result[i].path) <= options.maxDepth.n

(***************************************************************************)
(* C2  Ignore-path completeness: no returned record has a path equal to,   *)
(* or nested under, a path listed in ignorePaths.                          *)
(***************************************************************************)
C2_IgnorePathCompleteness ==
  Returned =>
    \A p \in options.ignorePaths : \A i \in DOMAIN result : ~AtOrUnder(result[i], p)

(***************************************************************************)
(* C3  objectDiff fails only when circularRefs is 'error' and the inputs   *)
(* contain a reference cycle.                                              *)
(***************************************************************************)
C3_ThrowsOnlyOnCycle ==
  Called =>
    \/ Returned
    \/ pc = "thrown" /\ options.circularRefs = "error" /\ ReferenceCycle

(***************************************************************************)
(* C4  Custom comparator: a predicate registered for the dotted path of a  *)
(* location that both sides have, and that returns true there, leaves no   *)
(* record at that path or under it, whatever the two values are.           *)
(***************************************************************************)
C4_ComparatorSuppresses ==
  Returned =>
    \A e \in options.compareWith : \A path \in KeyPaths :
      (e.pred = "true" /\ Join(path) = e.path /\ OnBothSides(path)) =>
        \A i \in DOMAIN result : ~AtOrUnder(result[i], e.path)

(***************************************************************************)
(* C5  Cycle policy consistency: two distinct root objects that each hold  *)
(* themselves under the same key k, and otherwise hold the same keys with  *)
(* the same non-container values, compared with only circularRefs set:     *)
(* 'ignore' returns no record at k; 'mark' returns exactly one record, the *)
(* updated sentinel record at k; 'error' throws naming k.                  *)
(***************************************************************************)
SelfReferenceAt(k) ==
  /\ IsObject(left) /\ IsObject(right) /\ left # right
  /\ HasOwn(left, k) /\ GetProperty(left, k) = left
  /\ HasOwn(right, k) /\ GetProperty(right, k) = right
  /\ \A k2 \in Keys \ {k} :
       /\ HasOwn(left, k2) <=> HasOwn(right, k2)
       /\ HasOwn(left, k2) =>
            /\ StrictEquals(GetProperty(left, k2), GetProperty(right, k2))
            /\ ~IsObject(GetProperty(left, k2))

C5_CyclePolicy ==
  \A k \in Keys :
    ( /\ Called
      /\ SelfReferenceAt(k)
      /\ options = [DefaultOptions EXCEPT !.circularRefs = options.circularRefs] ) =>
      CASE options.circularRefs = "ignore" -> Returned /\ RecordsAt(<<k>>) = {}
        [] options.circularRefs = "mark" -> Returned /\ result = <<CircularRecord(<<k>>)>>
        [] OTHER -> pc = "thrown" /\ message = Join(<<k>>)

(***************************************************************************)
(* C6  Termination: every call ends, by returning or by throwing the       *)
(* circular-reference error; the recursion never runs out of frames, and   *)
(* traverse is entered at most once for the root and once per own          *)
(* property of the heap.                                                   *)
(***************************************************************************)
C6_Terminates ==
  Called => /\ pc \in {"returned", "thrown"}
            /\ steps <= 1 + TotalProperties

\* a call with unbounded maxDepth on a graph with a cycle on both sides that
\* met an already visited container and returned
C6_Witness ==
  /\ Returned
  /\ ReferenceCycle
  /\ IsObject(left) /\ left.id \in ReachableFrom(heap, {v.id : v \in OwnValues(heap, left.id) \cap Refs}, NumObjects)
  /\ IsObject(right) /\ right.id \in ReachableFrom(heap, {v.id : v \in OwnValues(heap, right.id) \cap Refs}, NumObjects)
  /\ options.maxDepth.inf
  /\ options.circularRefs = "mark"
  /\ \E i \in DOMAIN result : result[i] = CircularRecord(result[i].path)
  /\ steps >= 2

(***************************************************************************)
(* C7  Identity law: with the same reference or the same primitive value   *)
(* on both sides the call returns the empty list, whatever the options,    *)
(* and invokes no comparator.                                              *)
(***************************************************************************)
C7_IdentityLaw ==
  (Called /\ left = right) => (Returned /\ result = <<>> /\ calls = 0)

(***************************************************************************)
(* C8  With ignoreTypes containing 'function' no returned record for a     *)
(* property carries a function as value, oldValue or newValue.             *)
(***************************************************************************)
C8_IgnoredFunctions ==
  (Returned /\ "function" \in options.ignoreTypes) =>
    \A i \in DOMAIN result :
      result[i].path # <<>> => \A v \in Carried(result[i]) : TypeOf(v) # "function"

(***************************************************************************)
(* C9  Under default options, a location both sides have and that holds a *)
(* function on both sides gets no record, also for two different function  *)
(* references.                                                             *)
(***************************************************************************)
BothFunctionsAt(path) ==
  /\ OnBothSides(path)
  /\ TypeOf(ValueAt(left, path)) = "function"
  /\ TypeOf(ValueAt(right, path)) = "function"

C10_Symmetry ==
  (Returned /\ options = DefaultOptions) =>
    LET swappedCall == objectDiff(right, left, options)
    IN /\ swappedCall.status = "ok"
       /\ SameMultiset(swappedCall.diffs, SwappedAll(result))

(***************************************************************************)
(* C11  Key presence is structural: under default options, at every pair   *)
(* of containers whose keys the call enumerated, a key that one side has   *)
(* (key in object) and the other has not yields exactly one record at the  *)
(* key's path: deleted with the left value when only the left has it,      *)
(* added with the right value when only the right has it, also when that   *)
(* value is undefined or null.                                             *)
(***************************************************************************)
Has(o, k) == (\E i \in 1..Len(heap[o.id]) : heap[o.id][i].key = k) \/ k \in ProtoKeys

IndexOf(o, k) ==
  IF \E i \in 1..Len(heap[o.id]) : heap[o.id][i].key = k
  THEN CHOOSE i \in 1..Len(heap[o.id]) : heap[o.id][i].key = k
  ELSE 0

\* the place of key k in the visit of the pair of containers l, r
VisitRank(l, r, k) ==
  IF IndexOf(l, k) > 0 THEN IndexOf(l, k) ELSE Len(heap[l.id]) + IndexOf(r, k)

\* the length of the longest common prefix of p and q
CommonPrefix(p, q) ==
  LET Agree(n) == \A i \in 1..n : p[i] = q[i]
      Lens == {n \in 0..Len(p) : n <= Len(q)}
  IN CHOOSE n \in Lens : Agree(n) /\ \A m \in Lens : Agree(m) => m <= n

VisitedBefore(p, q) ==
  LET n == CommonPrefix(p, q)
  IN /\ n < Len(p)
     /\ n < Len(q)
     /\ LET at == SubSeq(p, 1, n)
            l == ValueAt(left, at)
            r == ValueAt(right, at)
        IN /\ IsObject(l) /\ IsObject(r)
           /\ VisitRank(l, r, p[n + 1]) < VisitRank(l, r, q[n + 1])

Invocations == Len(attempts) + (IF pollPc = "calling" THEN 1 ELSE 0)

\* attempts that rejected with an error that is no abort error
RejectedAttempts ==
  Cardinality({i \in DOMAIN attempts :
                 attempts[i][1] = "rejected" /\ attempts[i][2] # "AbortError"})

PollSettled == pollPc = "done"
ThrewPollError == PollSettled /\ settlement.state = "rejected" /\ settlement.error = "PollError"
ReturnedResult == PollSettled /\ settlement.state = "fulfilled"

(***************************************************************************)
(* C14  poll counts only rejected attempts against retryCount: it rejects  *)
(* with PollError exactly when the (retryCount + 1)-th rejected attempt    *)
(* has occurred.  A PollError comes after exactly retryCount + 1 rejected  *)
(* attempts, there are never more, and after that many the promise         *)
(* function is not invoked again and the call ends with PollError.         *)
(***************************************************************************)
C14_RetryBudget ==
  /\ ThrewPollError => RejectedAttempts = pollOptions.retryCount + 1
  /\ RejectedAttempts <= pollOptions.retryCount + 1
  /\ RejectedAttempts = pollOptions.retryCount + 1 =>
       /\ pollPc \in {"waitingToRetry", "done"}
       /\ PollSettled => ThrewPollError

(***************************************************************************)
(* C15  With a finite retryCount poll retries at most retryCount times:    *)
(* the promise function is invoked at most retryCount + 1 times, also when *)
(* every attempt fulfils with a value shouldContinue continues on.         *)
(***************************************************************************)
C15_BoundedRetries == Invocations <= pollOptions.retryCount + 1

(***************************************************************************)
(* C16  The attempt history (history on success, PollError.results on      *)
(* failure) has exactly one entry per invocation of the promise function,  *)
(* in invocation order: [null, value] for one that fulfilled and           *)
(* [error, null] for one that rejected; on success the result is the value *)
(* of the last entry.                                                      *)
(***************************************************************************)
EntryOf(attempt) ==
  IF attempt[1] = "fulfilled" THEN <<"null", attempt[2]>> ELSE <<attempt[2], "null">>

C16_HistoryPerInvocation ==
  /\ ThrewPollError =>
       /\ Len(settlement.results) = Len(attempts)
       /\ \A i \in DOMAIN attempts : settlement.results[i] = EntryOf(attempts[i])
  /\ ReturnedResult =>
       /\ Len(settlement.history) = Len(attempts)
       /\ \A i \in DOMAIN attempts : settlement.history[i] = EntryOf(attempts[i])
       /\ settlement.result = settlement.history[Len(settlement.history)][2]

(***************************************************************************)
(* C17  If the signal is aborted before poll has settled, poll rejects     *)
(* with the abort reason: it neither resolves with a result nor rejects    *)
(* with PollError after the abort.                                         *)
(***************************************************************************)
C17_AbortWins ==
  (PollSettled /\ aborted) => settlement = Rejected("AbortError")

(***************************************************************************)
(* Vocabulary of the properties of preventable.                            *)
(***************************************************************************)
WrapperCalled == wrapperPc \in {"handlers", "done"}
WrapperDone == wrapperPc = "done"

\* the positions in trace where a handler is invoked
HandlerEntries == {n \in DOMAIN trace : trace[n][1] = "handler"}

\* the positions in trace where the wrapper itself invokes the default action
WrapperDefaults ==
  {n \in DOMAIN trace : trace[n][1] = "default" /\ trace[n][3] = 0}

PreventCalls == {n \in DOMAIN trace : trace[n][1] = "preventDefault"}
DefaultCalls == {n \in DOMAIN trace : trace[n][1] = "default"}
Errors == {n \in DOMAIN trace : trace[n][1] = "throw"}

C19_PreventionPerCall ==
  WrapperCalled =>
    /\ prevented => (PreventCalls \cup DefaultCalls) # {}
    /\ (WrapperDone /\ Cardinality(HandlerEntries) = Len(handlers) /\ Errors = {}) =>
         /\ (PreventCalls \cup (DefaultCalls \ WrapperDefaults)) = {} =>
              /\ DefaultCalls = {Len(trace)}
              /\ trace[Len(trace)] = <<"default", args, 0>>
         /\ PreventCalls # {} => WrapperDefaults = {}

\* a second call, not asked to prevent, that ran the default action after a
\* handler that prevents on request
C19_Witness ==
  /\ WrapperDone
  /\ callsMade = 2
  /\ args = <<"allow">>
  /\ \E i \in DOMAIN handlers : handlers[i].script = <<"preventIfAsked">>
  /\ PreventCalls = {}
  /\ trace[Len(trace)] = <<"default", args, 0>>

(***************************************************************************)
(* C20  If a handler throws (sync wrapper) or rejects (async wrapper), the *)
(* call throws or rejects with that error, no later handler runs, and the  *)
(* wrapper does not execute the default action: the error is the last     *)
(* event of the call.                                                      *)
(***************************************************************************)
C20_HandlerErrorEndsCall ==
  WrapperCalled =>
    \A n \in Errors :
      /\ n = Len(trace)
      /\ WrapperDone
      /\ outcome = [state |-> IF AsyncWrapper THEN "rejected" ELSE "threw",
                    error |-> "HandlerError"]
      /\ WrapperDefaults = {}
      /\ \A m \in HandlerEntries : trace[m][2] <= trace[n][2]

\* the first of two handlers threw in a sync wrapper, or rejected in an async one
C20_Witness ==
  /\ WrapperDone
  /\ Len(handlers) = 2
  /\ trace = <<<<"handler", 1>>, <<"throw", 1>>>>
  /\ outcome.state \in {"threw", "rejected"}


(***************************************************************************)
(* C21  HashMap is observationally a map keyed by getHash(key): after any  *)
(* sequence of set, delete and clear, what get, has, size and delete       *)
(* return is what a reference map from hash values to the last value set   *)
(* for that hash returns; two keys with the same hash address one entry    *)
(* and size counts the distinct hashes.                                    *)
(***************************************************************************)
C21_HashMapRefinesMap ==
  getHash \in HashFns =>
    /\ returned = expected
    /\ \A key \in HashKeys :
         /\ get(key) = RefGet(Hash(getHash, key))
         /\ has(key) = RefHas(Hash(getHash, key))
    /\ size = RefSize
    /\ size = Cardinality({Hash(getHash, key) : key \in {k \in HashKeys : has(k)}})

\* get(user1) returned the value of the entry that set(user3, ...) created
C21_Witness ==
  /\ getHash = "byId"
  /\ hashedKeys = <<[key |-> Num(1), value |-> User3]>>
  /\ returned = <<"get", User1, Str(2)>>
  /\ size = 1


(***************************************************************************)
(* C22  HashSet.add of a value whose hash is already present in the set is *)
(* ignored: size is unchanged and the element stored for that hash, the    *)
(* one that values() and iteration yield, remains the value added first.   *)
(***************************************************************************)
C22_DuplicateAddIgnored ==
  [][\A key \in HashKeys :
       (HashSetAdd(key) /\ MapHas(setMap, Hash(setGetHash, key))) =>
         /\ setSize' = setSize
         /\ values' = values]_hashSetVars


(***************************************************************************)
(* Vocabulary of the properties of StackNavigation.                        *)
(***************************************************************************)
\* an event handler has returned and the component has rendered again
Rendered == events >= 1 /\ navCalls = <<>>

\* the handler that returned last made exactly the call c
OnlyCall(c) == Rendered /\ lastCalls = <<c>>

\* the first n entries of a list
FirstEntries(list, n) == [i \in 1..n |-> list[i]]

\* the operations on a plain list
PlainPush(list, e) == list \o <<e>>
PlainPop(list) == IF list = <<>> THEN <<>> ELSE FirstEntries(list, Len(list) - 1)
PlainPopToTop(list) == IF list = <<>> THEN <<>> ELSE <<list[1]>>

(***************************************************************************)
(* C23  With one operation per render, starting from any stack: push(e)    *)
(* appends e on top, pop() removes the top entry, clear() empties the      *)
(* stack, popToTop() keeps only the first entry, and pop() and popToTop()  *)
(* on an empty stack leave it empty, as the same operation does on a plain *)
(* list.                                                                   *)
(***************************************************************************)
C23_OneOperationPerRender ==
  /\ \A e \in Entries :
       OnlyCall([op |-> "push", entry |-> e]) => stack = PlainPush(before, e)
  /\ OnlyCall([op |-> "pop", count |-> 1]) => stack = PlainPop(before)
  /\ OnlyCall([op |-> "clear"]) => stack = <<>>
  /\ OnlyCall([op |-> "popToTop"]) => stack = PlainPopToTop(before)

\* the third of three renders, each after one operation, was a popToTop()
\* that dropped an entry
C23_Witness ==
  /\ events = 3
  /\ OnlyCall([op |-> "popToTop"])
  /\ Len(before) >= 2
  /\ stack = <<before[1]>>

(***************************************************************************)
(* C24  pop(count) removes count entries from the top of the stack: for    *)
(* every stack of length n and every count >= 1 the stack afterwards is    *)
(* the first max(0, n - count) entries of the stack before, so a count     *)
(* larger than the length of the stack empties it.                         *)
(***************************************************************************)
C24_PopCount ==
  \A count \in 1..MaxPopCount :
    OnlyCall([op |-> "pop", count |-> count]) =>
      stack = FirstEntries(before,
                           IF Len(before) > count THEN Len(before) - count ELSE 0)


(***************************************************************************)
(* Vocabulary of the properties of suspensify.                             *)
(***************************************************************************)
ReaderExists == status # "none"
ReadsAt(state) == {n \in DOMAIN reads : reads[n].promise.state = state}

(***************************************************************************)
(* C25 as stated: while the wrapped promise is pending every call throws a *)
(* thenable, after the promise fulfils every call returns the fulfilment   *)
(* value, and after it rejects every call throws the rejection reason.     *)
(***************************************************************************)
C25_FollowsThePromise ==
  ReaderExists =>
    \A n \in DOMAIN reads :
      LET read == reads[n]
      IN /\ read.promise.state = "pending" => read.did = <<"throws", "suspender">>
         /\ read.promise.state = "fulfilled" => read.did = <<"returns", read.promise.with>>
         /\ read.promise.state = "rejected" => read.did = <<"throws", read.promise.with>>

(***************************************************************************)
(* C25  A suspensify reader is a three-state resource driven by status:    *)
(* while status is pending, which is while the promise is pending and      *)
(* until the callback given to then has run, every call throws the         *)
(* suspender; once the callback has run, every call returns the fulfilment *)
(* value, or throws the rejection reason.  status changes at most once,    *)
(* from pending to success or to error, and a reader never returns a value *)
(* while the promise is pending.                                           *)
(***************************************************************************)
C25_ThreeStateReader ==
  ReaderExists =>
    /\ \A n \in DOMAIN reads :
         LET read == reads[n]
         IN /\ read.status = "pending" => read.did = <<"throws", "suspender">>
            /\ read.status = "success" =>
                 /\ read.promise.state = "fulfilled"
                 /\ read.did = <<"returns", read.promise.with>>
            /\ read.status = "error" =>
                 /\ read.promise.state = "rejected"
                 /\ read.did = <<"throws", read.promise.with>>
            /\ read.promise.state = "pending" => read.status = "pending"
            /\ \A m \in DOMAIN reads :
                 (m < n /\ reads[m].status # "pending") => read.status = reads[m].status
    /\ changes <= 1
    /\ changes = 0 <=> status = "pending"
    /\ settled.state = "pending" => status = "pending"

\* the reader threw the suspender while the promise was pending, threw it
\* again after the promise fulfilled, and then returned the value twice
C25_Witness ==
  /\ Len(reads) = 4
  /\ reads[1].promise.state = "pending"
  /\ reads[2].promise.state = "fulfilled" /\ reads[2].status = "pending"
  /\ reads[3].did = <<"returns", "test data">>
  /\ reads[4].did = <<"returns", "test data">>


(***************************************************************************)
(* C26  Nested identity: when a key is present on both sides and its two   *)
(* values are the same container reference, objectDiff emits no record at  *)
(* that key's path or beneath it, for every circularRefs policy.           *)
(***************************************************************************)
SameContainerAt(p) ==
  /\ p # <<>>
  /\ OnBothSides(p)
  /\ IsObject(ValueAt(left, p))
  /\ ValueAt(left, p) = ValueAt(right, p)

C26_NestedIdentity ==
  Returned =>
    \A p \in KeyPaths :
      SameContainerAt(p) => \A i \in DOMAIN result : ~AtOrUnder(result[i], Join(p))


(***************************************************************************)
(* C27  The circular-reference policy is applied only to real cycles: for  *)
(* inputs without any reference cycle, objectDiff with circularRefs 'mark' *)
(* emits no record carrying the '[Circular]' sentinel.                     *)
(***************************************************************************)
C27_SentinelOnlyOnCycle ==
  (Returned /\ options.circularRefs = "mark" /\ ~ReferenceCycle) =>
    \A i \in DOMAIN result : CircularSentinel \notin Carried(result[i])


(***************************************************************************)
(* C28  When a key is present on both sides, the only type of record that  *)
(* objectDiff emits at exactly that key's path is 'updated': a value that  *)
(* changes from undefined to a defined value, or from a defined value to   *)
(* undefined, is reported as updated and not as added or deleted.          *)
(***************************************************************************)
OwnKeyPaths == {p \in KeyPaths : p # <<>> /\ \A n \in DOMAIN p : p[n] \notin ProtoKeys}

C28_UpdatedWhenOnBothSides ==
  Returned =>
    \A p \in OwnKeyPaths :
      OnBothSides(p) => \A i \in RecordsAt(p) : result[i].type = "updated"


(***************************************************************************)
(* C29  Opaque update is reserved for composite versus non-composite.      *)
(* Under default options (any circularRefs policy), for the two values     *)
(* that the traversal compares at a path, the root included: when one is a *)
(* non-null container and the other a defined primitive or null, the only  *)
(* record of that subtree is one updated record at that path carrying both *)
(* whole values; when both are non-null containers not yet visited, no     *)
(* record is emitted at that path itself and the traversal descends into   *)
(* their keys, whatever their constructor property.                        *)
(***************************************************************************)
Parent(p) == SubSeq(p, 1, Len(p) - 1)

\* traverse is called with the two values at p
Compared(p) ==
  \/ p = <<>>
  \/ /\ p # <<>>
     /\ Parent(p) \in entered
     /\ HasProperty(ValueAt(left, Parent(p)), p[Len(p)])
     /\ HasProperty(ValueAt(right, Parent(p)), p[Len(p)])

InSubtree(rec, p) == Len(rec.path) >= Len(p) /\ SubSeq(rec.path, 1, Len(p)) = p

DefinedPrimitiveOrNull(v) == v \in Primitives \ {Undefined}

\* the containers of q were entered before the pair at p was compared
EnteredBefore(q, p) ==
  /\ q \in entered
  /\ q # p
  /\ \/ Len(q) < Len(p) /\ SubSeq(p, 1, Len(q)) = q
     \/ VisitedBefore(q, p)

NotYetVisited(p) ==
  \A q \in KeyPaths :
    EnteredBefore(q, p) =>
      {ValueAt(left, q), ValueAt(right, q)} \cap {ValueAt(left, p), ValueAt(right, p)} = {}

DefaultsButPolicy == options = [DefaultOptions EXCEPT !.circularRefs = options.circularRefs]

C29_OpaqueOnlyForMixedPairs ==
  (Returned /\ DefaultsButPolicy) =>
    \A p \in KeyPaths :
      Compared(p) =>
        LET l == ValueAt(left, p)
            r == ValueAt(right, p)
        IN /\ ( \/ IsObject(l) /\ DefinedPrimitiveOrNull(r)
                \/ DefinedPrimitiveOrNull(l) /\ IsObject(r) ) =>
                {i \in DOMAIN result : InSubtree(result[i], p)} = RecordsAt(p)
                /\ \E i \in DOMAIN result :
                     /\ RecordsAt(p) = {i}
                     /\ result[i] = [type |-> "updated", path |-> p,
                                     oldValue |-> l, newValue |-> r]
           /\ (IsObject(l) /\ IsObject(r) /\ ~(p = <<>> /\ l = r) /\ NotYetVisited(p)) =>
                /\ p \in entered
                /\ RecordsAt(p) = {}


(***************************************************************************)
(* C30  Completeness under default options: for inputs that are trees of   *)
(* plain objects and primitives, with no cycle, no container shared        *)
(* between two paths and no undefined value, objectDiff(left, right)       *)
(* returns the empty list if and only if left and right are structurally   *)
(* equal: the same keys at every level and strictly equal leaf values.     *)
(***************************************************************************)
OwnKeySet(o) == {heap[o.id][i].key : i \in 1..Len(heap[o.id])}

OwnValue(o, k) == heap[o.id][CHOOSE i \in 1..Len(heap[o.id]) : heap[o.id][i].key = k].val

RECURSIVE StructurallyEqual(_, _)
StructurallyEqual(l, r) ==
  IF IsObject(l) /\ IsObject(r)
  THEN /\ OwnKeySet(l) = OwnKeySet(r)
       /\ \A k \in OwnKeySet(l) : StructurallyEqual(OwnValue(l, k), OwnValue(r, k))
  ELSE l = r /\ l # NaN

C30_Completeness ==
  (Returned /\ options = DefaultOptions) =>
    (result = <<>> <=> StructurallyEqual(left, right))


(***************************************************************************)
(* C31  A non-positive maxDepth (0 or negative) is never an error and      *)
(* means 'never descend past the root'.  With only maxDepth set:           *)
(* objectDiff does not throw; it still compares the root itself, so a      *)
(* mismatch of the root values and the keys that only one root has are     *)
(* reported; and it does not compare the values of any key present on both *)
(* sides of the root.                                                      *)
(***************************************************************************)
NonPositiveMaxDepth ==
  /\ ~options.maxDepth.inf
  /\ options.maxDepth.n <= 0
  /\ options = [DefaultOptions EXCEPT !.maxDepth = options.maxDepth]

C31_NonPositiveMaxDepth ==
  (Called /\ NonPositiveMaxDepth) =>
    /\ Returned
    /\ (IsPrimitivePair(left, right) /\ ~StrictEquals(left, right)) =>
         RecordsAt(<<>>) # {}
    /\ (IsObject(left) /\ IsObject(right) /\ left # right) =>
         \A k \in Keys :
           /\ (HasProperty(left, k) /\ ~HasProperty(right, k)) =>
                \E i \in RecordsAt(<<k>>) : result[i].type = "deleted"
           /\ (~HasProperty(left, k) /\ HasProperty(right, k)) =>
                \E i \in RecordsAt(<<k>>) : result[i].type = "added"
           /\ (HasProperty(left, k) /\ HasProperty(right, k)) =>
                \A i \in DOMAIN result : ~InSubtree(result[i], <<k>>)


(***************************************************************************)
(* C32  After the AbortSignal passed to poll has been aborted, the promise *)
(* function is never invoked again, whether the abort happened during an   *)
(* attempt in flight or during an interval wait.                           *)
(***************************************************************************)
C32_NoInvocationAfterAbort ==
  [][(pollPc # "calling" /\ pollPc' = "calling") => (~aborted /\ ~aborted')]_pollVars

\* the signal was aborted after the first invocation, during the attempt or
\* the wait that followed it, and the call ended with the AbortError of the
\* signal without another invocation
C32_Witness ==
  /\ pollPc = "done"
  /\ aborted
  /\ settlement = Rejected("AbortError")
  /\ attempts = <<<<"fulfilled", "retry">>>>

(***************************************************************************)
(* C33  poll waits only between attempts: when polling ends in success or  *)
(* in PollError there is exactly one wait after each attempt but the last, *)
(* for interval milliseconds or for interval(n) with n the 0-based index   *)
(* of the attempt just completed, and no wait after the last attempt.      *)
(***************************************************************************)
C33_WaitsOnlyBetweenAttempts ==
  (pollPc = "done" /\ settlement.state # "pending"
     /\ (settlement.state = "fulfilled" \/ settlement.error = "PollError")) =>
    /\ Len(waits) = Len(attempts) - 1
    /\ \A n \in DOMAIN waits :
         waits[n] = (IF pollOptions.interval = "function"
                     THEN <<"interval", n - 1>> ELSE <<"interval">>)

(***************************************************************************)
(* C34  An attempt that rejects with a DOMException named 'AbortError'     *)
(* makes poll reject at once with that same error: no history entry is     *)
(* recorded for it, retryCount is not decremented, no interval wait        *)
(* happens and the promise function is not invoked again.                  *)
(***************************************************************************)
C34_AbortErrorEndsPolling ==
  [][(Len(attempts') = Len(attempts) + 1
        /\ attempts'[Len(attempts')] = <<"rejected", "AbortError">>) =>
       /\ pollPc' = "done"
       /\ settlement' = Rejected("AbortError")
       /\ history' = history
       /\ retryCount' = retryCount
       /\ waits' = waits]_pollVars

\* the second attempt rejected with an AbortError, after a first one that
\* failed and was retried
C34_Witness ==
  /\ pollPc = "done"
  /\ attempts = <<<<"rejected", "Error">>, <<"rejected", "AbortError">>>>
  /\ history = <<FailResult("Error")>>
  /\ retryCount = pollOptions.retryCount - 1
  /\ settlement = Rejected("AbortError")


\* the positions in trace where a handler invokes the default action through
\* event.default before the wrapper is through
HandlerDefaults ==
  {n \in DefaultCalls : trace[n][3] # 0 /\ \A m \in 1..n : trace[m][1] # "late"}

\* the default action or a handler returns a promise
ReturnsPromise ==
  \/ defaultAction.kind # "function"
  \/ \E i \in DOMAIN handlers : handlers[i].kind # "function"

(***************************************************************************)
(* C35  event.default replaces the automatic default call: when the        *)
(* handlers of one wrapper call invoke event.default k >= 1 times, the     *)
(* default action runs exactly k times during that call, each time with    *)
(* the arguments given to event.default, and the wrapper does not run it   *)
(* with the original arguments as well; in the sync wrapper and in the     *)
(* async wrapper, whether or not the handler awaits event.default.         *)
(***************************************************************************)
C35_DefaultReplacesAutomaticCall ==
  (WrapperDone /\ HandlerDefaults # {}) =>
    /\ WrapperDefaults = {}
    /\ \A n \in HandlerDefaults : trace[n][2] = <<"custom">>

(***************************************************************************)
(* C36  Async support: whenever the default action or a handler returns a  *)
(* promise, declared with the async keyword or not, the wrapper waits for  *)
(* each handler's promise to settle before it starts the next handler and  *)
(* before it decides whether to run the default action, so that a          *)
(* preventDefault() of a handler whose promise has not settled yet always  *)
(* prevents the default action.                                            *)
(***************************************************************************)
C36_WaitsForEveryPromise ==
  ReturnsPromise =>
    /\ continuations # <<>> => wrapperPc = "awaiting"
    /\ (WrapperDone /\ PreventCalls # {}) => WrapperDefaults = {}


(***************************************************************************)
(* Vocabulary of the properties of HashMap's keys.                         *)
(***************************************************************************)
\* the hashes of a Map, in insertion order
HashesOf(m) == [i \in 1..Len(m) |-> m[i].key]

\* the keys that keys() and entries() report for a hash
ReportedKeys(hash) ==
  {keys[i] : i \in MapIndex(hashedKeys, hash)} \cup {entries[i][1] : i \in MapIndex(map, hash)}

(***************************************************************************)
(* C37  HashMap keeps its two internal maps in lockstep: after any         *)
(* sequence of set, delete and clear the value map and the key map hold    *)
(* the same hashes in the same insertion order, so that size is the number *)
(* of keys that keys() yields, keys() and values() are aligned position by *)
(* position, and entries() never yields an undefined key.                  *)
(***************************************************************************)
C37_MapsInLockstep ==
  getHash \in HashFns =>
    /\ HashesOf(map) = HashesOf(hashedKeys)
    /\ size = Len(keys)
    /\ Len(keys) = Len(valuesOfMap)
    /\ \A i \in DOMAIN entries :
         /\ entries[i][1] # Undefined
         /\ entries[i] = <<keys[i], valuesOfMap[i]>>

\* two hashes were set and the delete that has just returned true removed
\* one of them
C37_Witness ==
  /\ returned # <<>>
  /\ returned[1] = "delete"
  /\ returned[3] = TRUE
  /\ size = 1
  /\ Len(keys) = 1

(***************************************************************************)
(* C38  HashMap reports, for each hash, the key object passed to the first *)
(* set() since that hash was last absent: a later set() with another key   *)
(* object of the same hash replaces the value but not the key that keys(), *)
(* entries() and forEach yield; after delete or clear followed by set, the *)
(* key passed to that set is the one reported.                             *)
(***************************************************************************)
C38_FirstKeyReported ==
  [][\A key \in HashKeys, value \in HashValues :
       (mapOps' = mapOps + 1 /\ returned' = <<"set", key, value>>) =>
         LET hash == Hash(getHash, key)
         IN /\ IF RefHas(hash)
               THEN ReportedKeys(hash)' = ReportedKeys(hash) /\ ReportedKeys(hash) # {}
               ELSE ReportedKeys(hash)' = {key}
            /\ \E i \in DOMAIN entries' :
                 entries'[i] = <<CHOOSE k \in ReportedKeys(hash)' : TRUE, value>>]_hashMapVars

\* set(user3, ...) has replaced the value of the entry that set(user1, ...)
\* created, and user1 is still the key reported
C38_Witness ==
  /\ getHash = "byId"
  /\ returned = <<"set", User3, Str(2)>>
  /\ keys = <<User1>>
  /\ entries = <<<<User1, Str(2)>>>>


\* one navigation call made on its own in a render whose stack is s, and
\* the stack of the render that follows
SingleCall(call, s) ==
  CASE call.op = "push" -> ApplyUpdate([op |-> "concat", entry |-> call.entry], s)
    [] call.op = "pop" ->
         IF Len(s) = 0 THEN s ELSE ApplyUpdate([op |-> "slice", count |-> call.count], s)
    [] call.op = "popToTop" -> IF Len(s) = 0 THEN s ELSE ApplyUpdate([op |-> "top"], s)
    [] OTHER -> ApplyUpdate([op |-> "set"], s)

RECURSIVE InCallOrder(_, _)
\* the calls applied one after the other, each to the result of the one before
InCallOrder(navigationCalls, s) ==
  IF navigationCalls = <<>> THEN s
  ELSE InCallOrder(Tail(navigationCalls), SingleCall(Head(navigationCalls), s))

(***************************************************************************)
(* C39  Batched navigation calls are applied in call order: when several   *)
(* of push, pop, clear and popToTop are called within one event handler,   *)
(* before the component renders again, the stack that results is the       *)
(* result of applying those operations one after the other, in call order, *)
(* to the stack as it was before the handler ran.                          *)
(***************************************************************************)
C39_BatchInCallOrder ==
  (Rendered /\ Len(lastCalls) > 1) => stack = InCallOrder(lastCalls, before)

====
